---- MODULE Spec2Model ----
(***************************************************************************)
(* Model of aed_wait_time_scraper.py: the cadence gate (get_check_times,   *)
(* should_update), the dataset writer (update_dataset, update_readme) and  *)
(* the orchestrator check_and_update, run by an external scheduler.        *)
(*                                                                         *)
(* Time is the Hong Kong wall clock in whole seconds since 00:00:00 of day *)
(* 0.  A datetime is a record [wall, off]: its wall-clock fields (as       *)
(* seconds) and its UTC offset in minutes.  Two aware datetimes compare by *)
(* the instant wall - 60 * off, as Python compares them.                   *)
(***************************************************************************)
EXTENDS Integers, Sequences, FiniteSets, TLC

\* ---------------------------------------------------------------- bounds
MaxRuns == 2                 \* invocations of main() in one behaviour
Delay == 30                  \* seconds an operation may take before a clock read
MaxMinutes == 150            \* length (minutes) of the once-a-minute schedule
GateMinutes == 100           \* length (minutes) of the window the gate is evaluated in
MaxHospitals == 2            \* records in one payload given to fetch_data alone
RaceRuns == 4                \* invocations of main() by two overlapping processes
EmptyRuns == 2               \* invocations of main() started on an empty partition

\* ------------------------------------------------------ program constants
HktOffsetMin == 480          \* offset of datetime.now(hk_tz): +08:00
LmtOffsetMin == 457          \* offset pytz gives replace(tzinfo=hk_tz): LMT+7:37

HOUR == 60 * 60
DAY == 24 * HOUR
check_minutes == <<2, 17, 32, 47>>

StartClock == 22 * HOUR + 35 * 60           \* day 0, 22:35:00
Intervals == {0, 15 * 60, 84 * 60}          \* scheduler gaps between runs
Delays == {0, Delay}
Days == 0 .. 2
Procs == {1}
NoData == <<>>

\* ------------------------------------------------------- the upstream feed
\* two hospital records as the feed may hold them (a dict is a function
\* from its keys), and the keys a record may carry
FeedRecords ==
    {[hospNameEn |-> "A", hospNameGb |-> "Jia", hospNameCh |-> "Big5 A", topWait |-> "1 HR",
      hospTimeEn |-> "01/01/2024 12:00PM", hospCode |-> "X1"],
     [hospNameEn |-> "B", hospNameGb |-> "Yi", hospNameCh |-> "Big5 B", topWait |-> "2 HR",
      hospTimeEn |-> "01/01/2024 12:15PM", hospCode |-> "X2"]}

UpstreamKeys == {"hospNameEn", "hospNameGb", "topWait", "hospTimeEn", "hospCode"}

KeySets == {UpstreamKeys,
            {"hospNameEn", "hospNameGb", "topWait", "hospTimeEn"},
            {"hospNameEn", "hospNameCh", "hospTimeEn"},
            {}}

Restrict(h, D) == [k \in D |-> h[k]]

\* result.hospData of the payloads the orchestrator is run against
Payloads == {<<Restrict(h, UpstreamKeys)>> : h \in FeedRecords}

\* dict.get(key, '')
dict_get(hospital, key) == IF key \in DOMAIN hospital THEN hospital[key] ELSE ""

\* hospital_data with the Chinese name read from the key it is stored under
hospital_data_ch(hospital) ==
    [hospNameEn |-> dict_get(hospital, "hospNameEn"),
     hospNameCh |-> dict_get(hospital, "hospNameCh"),
     topWait |-> dict_get(hospital, "topWait"),
     hospTimeEn |-> dict_get(hospital, "hospTimeEn")]

\* the record fetch_data builds for one hospital
hospital_data(hospital) ==
    [hospNameEn |-> dict_get(hospital, "hospNameEn"),
     hospNameCh |-> dict_get(hospital, "hospNameGb"),
     topWait |-> dict_get(hospital, "topWait"),
     hospTimeEn |-> dict_get(hospital, "hospTimeEn")]

extracted_data(hospData) == [i \in 1 .. Len(hospData) |-> hospital_data(hospData[i])]

\* ------------------------------------------------------------- datetimes
Instant(dt) == dt.wall - 60 * dt.off

Before(a, b) == Instant(a) < Instant(b)

AtOrBefore(a, b) == Instant(a) <= Instant(b)

PlusSeconds(dt, s) == [dt EXCEPT !.wall = dt.wall + s]

\* datetime.replace(minute=m, second=0, microsecond=0)
ReplaceMinute(dt, m) == [dt EXCEPT !.wall = (dt.wall - (dt.wall % HOUR)) + 60 * m]

\* strftime("%Y-%m-%d"): the calendar date of the wall-clock fields
strftime_date(dt) == dt.wall \div DAY

\* datetime.isoformat(): the text "<wall-clock fields><+hh:mm>"
isoformat(dt) == <<dt.wall, dt.off>>

\* datetime.fromisoformat(): an aware datetime carrying the text's offset
fromisoformat(s) == [wall |-> s[1], off |-> s[2]]

\* .replace(tzinfo=hk_tz): keeps the fields, attaches the zone object's
\* default offset, which for a pytz zone is its first (LMT) offset
replace_tzinfo_hk(dt) == [dt EXCEPT !.off = LmtOffsetMin]

SeqMax(s) == CHOOSE x \in {s[i] : i \in 1 .. Len(s)} :
                \A j \in 1 .. Len(s) : AtOrBefore(s[j], x)

SeqMin(s) == CHOOSE x \in {s[i] : i \in 1 .. Len(s)} :
                \A j \in 1 .. Len(s) : AtOrBefore(x, s[j])

\* ------------------------------------------------------------ cadence gate
\* check_time with the comparison "<" in place of "<="
check_time_strict(reference_time, minute) ==
    LET ct == ReplaceMinute(reference_time, minute)
    IN  IF Before(ct, reference_time) THEN PlusSeconds(ct, HOUR) ELSE ct

check_time(reference_time, minute) ==
    LET ct == ReplaceMinute(reference_time, minute)
    IN  IF AtOrBefore(ct, reference_time) THEN PlusSeconds(ct, HOUR) ELSE ct

get_check_times(reference_time) ==
    [i \in 1 .. Len(check_minutes) |-> check_time(reference_time, check_minutes[i])]

next_check_time(t) ==
    LET nxt == SelectSeq(get_check_times(t), LAMBDA c : Before(t, c))
    IN  IF nxt # <<>> THEN SeqMin(nxt) ELSE t

\* prev_check_time falling back to one hour after t
prev_check_time_ahead(t) ==
    LET prv == SelectSeq(get_check_times(t), LAMBDA c : AtOrBefore(c, t))
    IN  IF prv # <<>> THEN SeqMax(prv) ELSE PlusSeconds(t, HOUR)

prev_check_time(t) ==
    LET prv == SelectSeq(get_check_times(t), LAMBDA c : AtOrBefore(c, t))
    IN  IF prv # <<>> THEN SeqMax(prv) ELSE PlusSeconds(t, -HOUR)

\* should_update with the operands of its comparison exchanged
should_update_reversed(last_update_time, t) == Before(prev_check_time(t), last_update_time)

\* should_update(last_update_time) evaluated when the clock reads t
should_update(last_update_time, t) == Before(last_update_time, prev_check_time(t))

VARIABLES clock, store, readme, runs, prev,
          pc, now, daily, last_entry_time, su_now, due, check_times,
          data, handling, filename, existing_data, firstDl, failed, wrote,
          errors, uploads, response, fetches, wfailed

vars == <<clock, store, readme, runs, prev,
          pc, now, daily, last_entry_time, su_now, due, check_times,
          data, handling, filename, existing_data, firstDl, failed, wrote,
          errors, uploads, response, fetches, wfailed>>

get_hk_time(c) == [wall |-> c, off |-> HktOffsetMin]

NoTime == [wall |-> 0, off |-> 0]

NoFile == [exists |-> FALSE, data |-> <<>>]

\* the state after construction, but for the clock and last_entry_time
InitRest ==
    /\ store = [d \in Days |-> NoFile]
    /\ readme = <<>>
    /\ runs = 0
    /\ prev = [ran |-> FALSE, now |-> NoTime, wrote |-> 0, failed |-> FALSE]
    /\ pc = [p \in Procs |-> "idle"]
    /\ now = [p \in Procs |-> NoTime]
    /\ daily = [p \in Procs |-> <<>>]
    /\ su_now = [p \in Procs |-> NoTime]
    /\ due = [p \in Procs |-> FALSE]
    /\ check_times = [p \in Procs |-> <<>>]
    /\ data = [p \in Procs |-> NoData]
    /\ handling = [p \in Procs |-> FALSE]
    /\ filename = [p \in Procs |-> 0]
    /\ existing_data = [p \in Procs |-> <<>>]
    /\ firstDl = [p \in Procs |-> "none"]
    /\ failed = [p \in Procs |-> FALSE]
    /\ wrote = [p \in Procs |-> 0]
    /\ errors = [d \in Days |-> <<>>]
    /\ uploads = 0
    /\ response = [p \in Procs |-> <<>>]
    /\ fetches = [p \in Procs |-> 0]
    /\ wfailed = [p \in Procs |-> FALSE]

Init ==
    /\ clock = StartClock
    /\ last_entry_time = [p \in Procs |-> NoTime]
    /\ InitRest

\* ------------------------------------------------------------ orchestrator
\* An exception raised at p's current statement: inside the try block of
\* check_and_update it enters the except handler (which starts with
\* fetch_data); inside the handler it leaves check_and_update and main.
RaisedPc(p) == IF handling[p] THEN "raised" ELSE "fetch"

Raise(p) ==
    /\ pc' = [pc EXCEPT ![p] = RaisedPc(p)]
    /\ handling' = [handling EXCEPT ![p] = TRUE]

\* main() is started by the scheduler d seconds after the previous event;
\* check_and_update reads the clock and names today's file.
Start(p, d) ==
    /\ pc[p] \in {"idle", "done", "raised"}
    /\ clock' = clock + d
    /\ runs' = runs + 1
    /\ prev' = IF pc[p] = "idle" THEN prev
               ELSE [ran |-> TRUE, now |-> now[p], wrote |-> wrote[p],
                     failed |-> failed[p]]
    /\ now' = [now EXCEPT ![p] = get_hk_time(clock')]
    /\ pc' = [pc EXCEPT ![p] = "download"]
    /\ daily' = [daily EXCEPT ![p] = <<>>]
    /\ last_entry_time' = [last_entry_time EXCEPT ![p] = NoTime]
    /\ su_now' = [su_now EXCEPT ![p] = NoTime]
    /\ due' = [due EXCEPT ![p] = FALSE]
    /\ check_times' = [check_times EXCEPT ![p] = <<>>]
    /\ data' = [data EXCEPT ![p] = NoData]
    /\ handling' = [handling EXCEPT ![p] = FALSE]
    /\ filename' = [filename EXCEPT ![p] = 0]
    /\ existing_data' = [existing_data EXCEPT ![p] = <<>>]
    /\ firstDl' = [firstDl EXCEPT ![p] = "none"]
    /\ failed' = [failed EXCEPT ![p] = FALSE]
    /\ wrote' = [wrote EXCEPT ![p] = 0]
    /\ response' = [response EXCEPT ![p] = <<>>]
    /\ fetches' = [fetches EXCEPT ![p] = 0]
    /\ wfailed' = [wfailed EXCEPT ![p] = FALSE]
    /\ UNCHANGED <<store, readme, errors, uploads>>

\* an empty file skips the gate, and does nothing at all
after_download_skip(daily_data) == IF daily_data # <<>> THEN "gate" ELSE "done"

\* if daily_data["data"]: ... else: fetch
after_download(daily_data) == IF daily_data # <<>> THEN "gate" ELSE "fetch"

\* api.hf_hub_download + json.load of today's file; ok = FALSE is any
\* failure of a file that exists (network, unparseable content).
Download(p, ok) ==
    /\ pc[p] = "download"
    /\ LET f == store[strftime_date(now[p])]
           got == f.exists /\ ok
       IN  /\ firstDl' = [firstDl EXCEPT ![p] =
                 IF got THEN "ok" ELSE IF f.exists THEN "error" ELSE "notfound"]
           /\ failed' = [failed EXCEPT ![p] = f.exists /\ ~ok]
           /\ IF got
              THEN /\ daily' = [daily EXCEPT ![p] = f.data]
                   /\ pc' = [pc EXCEPT ![p] = after_download(f.data)]
                   /\ UNCHANGED handling
              ELSE /\ Raise(p)
                   /\ UNCHANGED daily
    /\ UNCHANGED <<clock, store, readme, runs, prev, now, last_entry_time, su_now,
                   due, check_times, data, filename, existing_data, wrote,
                   errors, uploads, response, fetches, wfailed>>

\* the timestamp of the last stored entry as check_and_update reads it
parse_last_entry(d) == replace_tzinfo_hk(fromisoformat(d[Len(d)].timestamp))

\* the update done whatever should_update returned
after_gate_always(is_due) == "fetch"

\* if should_update(last_entry_time): fetch ... else: log the next check
after_gate(is_due) == IF is_due THEN "fetch" ELSE "done"

\* last_entry_time is parsed, should_update reads the clock (d seconds
\* later) and decides; the else branch computes the next check for the log
\* (min() there has a non-empty argument: see C4_CheckTimes).
Gate(p, d) ==
    /\ pc[p] = "gate"
    /\ clock' = clock + d
    /\ last_entry_time' = [last_entry_time EXCEPT ![p] = parse_last_entry(daily[p])]
    /\ su_now' = [su_now EXCEPT ![p] = get_hk_time(clock')]
    /\ due' = [due EXCEPT ![p] = should_update(last_entry_time'[p], su_now'[p])]
    /\ pc' = [pc EXCEPT ![p] = after_gate(due'[p])]
    /\ IF due'[p]
       THEN UNCHANGED check_times
       ELSE check_times' = [check_times EXCEPT ![p] = get_check_times(now[p])]
    /\ UNCHANGED <<store, readme, runs, prev, now, daily, data, handling, filename,
                   existing_data, firstDl, failed, wrote,
                   errors, uploads, response, fetches, wfailed>>

\* fetch_data(): the upstream request succeeds with result.hospData = h, or
\* raises (status, timeout, malformed payload)
fetch_data(p, ok, h) ==
    /\ pc[p] = "fetch"
    /\ fetches' = [fetches EXCEPT ![p] = fetches[p] + 1]
    /\ IF ok
       THEN /\ response' = [response EXCEPT ![p] = h]
            /\ data' = [data EXCEPT ![p] = extracted_data(h)]
            /\ pc' = [pc EXCEPT ![p] = "create_repo"]
            /\ UNCHANGED <<handling, failed, wfailed>>
       ELSE /\ Raise(p)
            /\ failed' = [failed EXCEPT ![p] = TRUE]
            /\ wfailed' = [wfailed EXCEPT ![p] = TRUE]
            /\ UNCHANGED <<data, response>>
    /\ UNCHANGED <<clock, store, readme, runs, prev, now, daily, last_entry_time,
                   su_now, due, check_times, filename, existing_data, firstDl, wrote,
                   errors, uploads>>

\* update_dataset, first part: create_repo(exist_ok=True)
create_repo(p, ok) ==
    /\ pc[p] = "create_repo"
    /\ IF ok
       THEN /\ pc' = [pc EXCEPT ![p] = "load"]
            /\ UNCHANGED <<handling, failed, wfailed>>
       ELSE /\ Raise(p)
            /\ failed' = [failed EXCEPT ![p] = TRUE]
            /\ wfailed' = [wfailed EXCEPT ![p] = TRUE]
    /\ UNCHANGED <<clock, store, readme, runs, prev, now, daily, last_entry_time,
                   su_now, due, check_times, data, filename, existing_data,
                   firstDl, wrote, errors, uploads, response, fetches>>

\* what update_dataset holds after trying to load the existing file
loaded(f, ok) == IF f.exists /\ ok THEN f.data ELSE <<>>

\* update_dataset, second part: the file is named after a new clock read
\* and loaded; any failure to load it starts from {"data": []}.
load_existing(p, d, ok) ==
    /\ pc[p] = "load"
    /\ clock' = clock + d
    /\ filename' = [filename EXCEPT ![p] = strftime_date(get_hk_time(clock'))]
    /\ existing_data' = [existing_data EXCEPT ![p] = loaded(store[filename'[p]], ok)]
    /\ failed' = [failed EXCEPT ![p] = failed[p] \/ (store[filename'[p]].exists /\ ~ok)]
    /\ pc' = [pc EXCEPT ![p] = "upload"]
    /\ UNCHANGED <<store, readme, runs, prev, now, daily, last_entry_time, su_now,
                   due, check_times, data, handling, firstDl, wrote,
                   errors, uploads, response, fetches, wfailed>>

None == [wall |-> -1, off |-> 0]

\* stamp ignoring the timestamp it is passed
stamp_clock(timestamp, c) == isoformat(get_hk_time(c))

\* timestamp.isoformat() if timestamp else get_hk_time().isoformat()
stamp(timestamp, c) ==
    IF timestamp # None THEN isoformat(timestamp) ELSE isoformat(get_hk_time(c))

Snapshot(timestamp, hospitals) == [timestamp |-> timestamp, hospitals |-> hospitals]

\* the new entry put in front of the existing ones
prepended(existing, snapshot) == <<snapshot>> \o existing

\* existing_data["data"].append({...})
appended(existing, snapshot) == Append(existing, snapshot)

\* update_dataset, third part: append the Snapshot and upload the file
upload_file(p, ok) ==
    /\ pc[p] = "upload"
    /\ existing_data' = [existing_data EXCEPT ![p] =
           appended(existing_data[p], Snapshot(stamp(now[p], clock), data[p]))]
    /\ IF ok
       THEN /\ store' = [store EXCEPT ![filename[p]] =
                   [exists |-> TRUE, data |-> existing_data'[p]]]
            /\ wrote' = [wrote EXCEPT ![p] = wrote[p] + 1]
            /\ uploads' = uploads + 1
            /\ pc' = [pc EXCEPT ![p] = "readme"]
            /\ UNCHANGED <<handling, failed, wfailed>>
       ELSE /\ Raise(p)
            /\ failed' = [failed EXCEPT ![p] = TRUE]
            /\ wfailed' = [wfailed EXCEPT ![p] = TRUE]
            /\ UNCHANGED <<store, wrote, uploads>>
    /\ UNCHANGED <<clock, readme, runs, prev, now, daily, last_entry_time, su_now,
                   due, check_times, data, filename, firstDl, errors, response, fetches>>

\* update_readme(): the README carries the time of a further clock read
update_readme(p, d, ok) ==
    /\ pc[p] = "readme"
    /\ clock' = clock + d
    /\ IF ok
       THEN /\ readme' = isoformat(get_hk_time(clock'))
            /\ pc' = [pc EXCEPT ![p] = "done"]
            /\ UNCHANGED <<handling, failed, wfailed>>
       ELSE /\ Raise(p)
            /\ failed' = [failed EXCEPT ![p] = TRUE]
            /\ wfailed' = [wfailed EXCEPT ![p] = TRUE]
            /\ UNCHANGED readme
    /\ UNCHANGED <<store, runs, prev, now, daily, last_entry_time, su_now, due,
                   check_times, data, filename, existing_data, firstDl, wrote,
                   errors, uploads, response, fetches>>

Next ==
    \E p \in Procs :
        \/ runs < MaxRuns /\ \E d \in Intervals : Start(p, d)
        \/ \E ok \in BOOLEAN : Download(p, ok)
        \/ \E d \in Delays : Gate(p, d)
        \/ \E ok \in BOOLEAN, h \in Payloads : fetch_data(p, ok, h)
        \/ \E ok \in BOOLEAN : create_repo(p, ok)
        \/ \E d \in Delays, ok \in BOOLEAN : load_existing(p, d, ok)
        \/ \E ok \in BOOLEAN : upload_file(p, ok)
        \/ \E d \in Delays, ok \in BOOLEAN : update_readme(p, d, ok)

Spec == Init /\ [][Next]_vars

TypeOK ==
    /\ clock \in Nat
    /\ \A p \in Procs : pc[p] \in {"idle", "download", "gate", "fetch", "create_repo",
                                   "load", "upload", "readme", "done", "raised"}

\* ------------------------------------------- the scheduler firing each minute
\* main() runs to completion once a minute, the first time at 00:01:00 of
\* day 0; every download of an existing file, fetch and upload succeeds and
\* no operation takes a measurable time.
MINUTE == 60

InitMinutely ==
    /\ clock = 0
    /\ last_entry_time = [p \in Procs |-> NoTime]
    /\ InitRest

NextMinutely ==
    \/ clock < MaxMinutes * MINUTE /\ Start(1, MINUTE)
    \/ Download(1, TRUE)
    \/ Gate(1, 0)
    \/ \E h \in Payloads : fetch_data(1, TRUE, h)
    \/ create_repo(1, TRUE)
    \/ load_existing(1, 0, TRUE)
    \/ upload_file(1, TRUE)
    \/ update_readme(1, 0, TRUE)

SpecMinutely == InitMinutely /\ [][NextMinutely]_vars

\* --------------------------------------------------- the gate on its own
\* get_check_times and should_update applied to the clock and to a last
\* update time: one set beforehand, or set to now() at some moment.
GateStartClock == 11 * HOUR + 45 * MINUTE
GateSeconds == {0, 30}
GateLasts == {get_hk_time(GateStartClock - 90 * MINUTE),
              get_hk_time(GateStartClock - 55 * MINUTE),
              replace_tzinfo_hk(get_hk_time(GateStartClock - 70 * MINUTE))}

InitGate ==
    /\ clock \in {GateStartClock + s : s \in GateSeconds}
    /\ last_entry_time \in [Procs -> GateLasts]
    /\ InitRest

\* the results of earlier calls are dropped when time passes
GateTick ==
    /\ clock + MINUTE <= GateStartClock + GateMinutes * MINUTE + 30
    /\ clock' = clock + MINUTE
    /\ su_now' = [p \in Procs |-> NoTime]
    /\ due' = [p \in Procs |-> FALSE]
    /\ now' = [p \in Procs |-> NoTime]
    /\ check_times' = [p \in Procs |-> <<>>]
    /\ UNCHANGED <<store, readme, runs, prev, pc, daily, last_entry_time, data,
                   handling, filename, existing_data, firstDl, failed, wrote,
                   errors, uploads, response, fetches, wfailed>>

\* last := now()
SetLast(p) ==
    /\ last_entry_time' = [last_entry_time EXCEPT ![p] = get_hk_time(clock)]
    /\ su_now' = [su_now EXCEPT ![p] = NoTime]
    /\ due' = [due EXCEPT ![p] = FALSE]
    /\ UNCHANGED <<clock, store, readme, runs, prev, pc, now, daily, check_times,
                   data, handling, filename, existing_data, firstDl, failed, wrote,
                   errors, uploads, response, fetches, wfailed>>

CallShouldUpdate(p) ==
    /\ su_now' = [su_now EXCEPT ![p] = get_hk_time(clock)]
    /\ due' = [due EXCEPT ![p] = should_update(last_entry_time[p], su_now'[p])]
    /\ UNCHANGED <<clock, store, readme, runs, prev, pc, now, daily, last_entry_time,
                   check_times, data, handling, filename, existing_data, firstDl,
                   failed, wrote, errors, uploads, response, fetches, wfailed>>

CallGetCheckTimes(p) ==
    /\ now' = [now EXCEPT ![p] = get_hk_time(clock)]
    /\ check_times' = [check_times EXCEPT ![p] = get_check_times(now'[p])]
    /\ UNCHANGED <<clock, store, readme, runs, prev, pc, daily, last_entry_time,
                   su_now, due, data, handling, filename, existing_data, firstDl,
                   failed, wrote, errors, uploads, response, fetches, wfailed>>

NextGate ==
    \/ GateTick
    \/ SetLast(1)
    \/ CallShouldUpdate(1)
    \/ CallGetCheckTimes(1)

SpecGate == InitGate /\ [][NextGate]_vars

\* ===================================================== claims on the gate
\* a checkpoint instant: minute 2, 17, 32 or 47 past an hour, seconds 0
IsCheckpoint(dt) == \E i \in 1 .. Len(check_minutes) : dt.wall % HOUR = 60 * check_minutes[i]

\* the fixed checkpoint instants of the hour of t, of the hour before and of
\* the hour after
CheckpointsAround(t) ==
    {[wall |-> (t.wall - (t.wall % HOUR)) + k * HOUR + 60 * check_minutes[i], off |-> t.off] :
        k \in {-1, 0, 1}, i \in 1 .. Len(check_minutes)}

\* the most recent checkpoint instant at or before t
LatestCheckpoint(t) ==
    CHOOSE c \in CheckpointsAround(t) :
        /\ AtOrBefore(c, t)
        /\ \A e \in CheckpointsAround(t) : AtOrBefore(e, t) => AtOrBefore(e, c)

\* the first checkpoint instant strictly after t
FirstCheckpointAfter(t) ==
    CHOOSE c \in CheckpointsAround(t) :
        /\ Before(t, c)
        /\ \A e \in CheckpointsAround(t) : Before(t, e) => AtOrBefore(c, e)

Evaluated(p) == su_now[p] # NoTime

\* C1: should_update(last) is true exactly when last is strictly earlier
\* than the most recent checkpoint instant at or before now.
C1_DueIffBeforeLatestCheckpoint ==
    \A p \in Procs :
        Evaluated(p) =>
            (due[p] <=> Before(last_entry_time[p], LatestCheckpoint(su_now[p])))

\* C3: with last set to now() at a checkpoint instant, should_update(last) is
\* false at that instant and true at every now at or after the first
\* checkpoint after last.
C3_GateOpensAtNextCheckpoint ==
    \A p \in Procs :
        (Evaluated(p) /\ IsCheckpoint(last_entry_time[p])
                      /\ last_entry_time[p].off = HktOffsetMin) =>
            /\ su_now[p] = last_entry_time[p] => ~due[p]
            /\ AtOrBefore(FirstCheckpointAfter(last_entry_time[p]), su_now[p]) => due[p]

Returned(p) == pc[p] \in {"done", "raised"}

Today(p) == strftime_date(now[p])

Timestamps(d) == [i \in 1 .. Len(store[d].data) |-> fromisoformat(store[d].data[i].timestamp)]

\* C2: invoked once a minute throughout the hour 01:00-01:59 of day 0, all
\* operations succeeding, exactly 4 Snapshots stamped in that hour are in the
\* day's partition, one for each checkpoint :02, :17, :32, :47.
InHour1(d) == {i \in 1 .. Len(store[d].data) :
                  /\ Timestamps(d)[i].wall >= HOUR
                  /\ Timestamps(d)[i].wall < 2 * HOUR}

C2_FourPerHour ==
    (pc[1] = "done" /\ clock >= 2 * HOUR - MINUTE) =>
        /\ Cardinality(InHour1(0)) = 4
        /\ \A k \in 1 .. Len(check_minutes) :
              \E i \in InHour1(0) : Timestamps(0)[i].wall = HOUR + 60 * check_minutes[k]

\* a checkpoint instant c with a < c <= b
CheckpointCrossed(a, b) ==
    \E c \in CheckpointsAround(a) \cup CheckpointsAround(b) : Before(a, c) /\ AtOrBefore(c, b)

\* the case of C5: the previous invocation wrote a Snapshot, this one ran
\* right after it on the same day with no checkpoint crossed, no I/O failed
C5_Case(p) ==
    /\ Returned(p)
    /\ prev.ran /\ prev.wrote >= 1 /\ ~prev.failed /\ ~failed[p]
    /\ strftime_date(prev.now) = Today(p)
    /\ ~CheckpointCrossed(prev.now, now[p])

\* C5: a second invocation right after one that wrote a Snapshot, same day,
\* no checkpoint crossed, all I/O succeeding, writes nothing: the two leave
\* exactly one new Snapshot, the last of the day's partition.
C5_Idempotent ==
    \A p \in Procs :
        C5_Case(p) =>
            /\ pc[p] = "done"
            /\ wrote[p] = 0
            /\ prev.wrote + wrote[p] = 1
            /\ store[Today(p)].data # <<>>
            /\ store[Today(p)].data[Len(store[Today(p)].data)].timestamp = isoformat(prev.now)

C5_Witness == \E p \in Procs : C5_Case(p) /\ firstDl[p] = "ok" /\ Evaluated(p)

\* the case of C6: no partition for today, and fetch, create_repo and the
\* uploads succeed
C6_Case(p) == Returned(p) /\ firstDl[p] = "notfound" /\ ~failed[p]

C7_NeverRaises == \A p \in Procs : pc[p] # "raised"

IsPrefix(a, b) == Len(a) <= Len(b) /\ \A i \in 1 .. Len(a) : a[i] = b[i]

\* C8: every write of a partition leaves its previous content as a prefix.
C8_AppendOnly == [][\A d \in Days : IsPrefix(store[d].data, store'[d].data)]_vars

\* C9: in each partition the timestamps are non-decreasing in list order.
C9_Chronological ==
    \A d \in Days :
        \A i, j \in 1 .. Len(store[d].data) :
            i < j => AtOrBefore(Timestamps(d)[i], Timestamps(d)[j])

\* a partition holds two Snapshots of different times, the second of them
\* written by an invocation in which an operation failed
C9_Witness ==
    \E d \in Days, p \in Procs :
        /\ Len(store[d].data) >= 2
        /\ Before(Timestamps(d)[1], Timestamps(d)[2])
        /\ Returned(p) /\ failed[p] /\ wrote[p] >= 1 /\ filename[p] = d

\* C10: the last_entry_time check_and_update parses from the last stored
\* timestamp is the HKT time t that was written: same fields, offset +08:00,
\* same instant.
C10_RoundTrip ==
    \A p \in Procs :
        (Evaluated(p) /\ daily[p] # <<>>) =>
            LET s == daily[p][Len(daily[p])].timestamp
                t == get_hk_time(s[1])
            IN  isoformat(t) = s =>
                    /\ last_entry_time[p] = t
                    /\ Instant(last_entry_time[p]) = Instant(t)

\* ------------------------------------------------- fetch_data on its own
\* fetch_data called, as check_and_update calls it, against a feed whose
\* payload has up to MaxHospitals records, with fields missing and fields
\* the mapping does not use
Hospitals == {Restrict(h, D) : h \in FeedRecords, D \in KeySets}

FetchPayloads == UNION {[1 .. n -> Hospitals] : n \in 0 .. MaxHospitals}

InitFetch ==
    /\ clock = StartClock
    /\ last_entry_time = [p \in Procs |-> NoTime]
    /\ store = [d \in Days |-> NoFile]
    /\ readme = <<>>
    /\ runs = 0
    /\ prev = [ran |-> FALSE, now |-> NoTime, wrote |-> 0, failed |-> FALSE]
    /\ pc = [p \in Procs |-> "fetch"]
    /\ now = [p \in Procs |-> NoTime]
    /\ daily = [p \in Procs |-> <<>>]
    /\ su_now = [p \in Procs |-> NoTime]
    /\ due = [p \in Procs |-> FALSE]
    /\ check_times = [p \in Procs |-> <<>>]
    /\ data = [p \in Procs |-> NoData]
    /\ handling = [p \in Procs |-> FALSE]
    /\ filename = [p \in Procs |-> 0]
    /\ existing_data = [p \in Procs |-> <<>>]
    /\ firstDl = [p \in Procs |-> "none"]
    /\ failed = [p \in Procs |-> FALSE]
    /\ wrote = [p \in Procs |-> 0]
    /\ errors = [d \in Days |-> <<>>]
    /\ uploads = 0
    /\ response \in [Procs -> FetchPayloads]
    /\ fetches = [p \in Procs |-> 0]
    /\ wfailed = [p \in Procs |-> FALSE]

\* the request is answered with the payload, or fails
NextFetch == \E ok \in BOOLEAN : fetch_data(1, ok, response[1])

SpecFetch == InitFetch /\ [][NextFetch]_vars

\* ================================================ claims, second part
\* C11: whenever a fetch or a write failed during a cycle, the cycle ends
\* with an entry in the ErrorPartition of the current date.
C11_ErrorsRecorded ==
    \A p \in Procs : (Returned(p) /\ wfailed[p]) => errors[Today(p)] # <<>>

OutputKeys == {"hospNameEn", "hospNameCh", "topWait", "hospTimeEn"}

FieldOrEmpty(h, k) == IF k \in DOMAIN h THEN h[k] ELSE ""

Fetched(p) == pc[p] = "create_repo"

\* C12: fetch_data returns one record per input record, in order, with
\* exactly the four output keys; hospNameCh is the input's hospNameGb, the
\* other three are the same-named input fields, an absent field is "".
C12_FetchMapping ==
    \A p \in Procs :
        Fetched(p) =>
            /\ Len(data[p]) = Len(response[p])
            /\ \A i \in 1 .. Len(response[p]) :
                  /\ DOMAIN data[p][i] = OutputKeys
                  /\ data[p][i].hospNameCh = FieldOrEmpty(response[p][i], "hospNameGb")
                  /\ \A k \in OutputKeys \ {"hospNameCh"} :
                        data[p][i][k] = FieldOrEmpty(response[p][i], k)

\* a payload of two records, the first without hospNameGb but with a
\* hospNameCh field of its own, the second the record of the spec's scenario
C12_Witness ==
    \E p \in Procs :
        /\ Fetched(p) /\ Len(response[p]) = 2
        /\ "hospNameGb" \notin DOMAIN response[p][1]
        /\ "hospNameCh" \in DOMAIN response[p][1]
        /\ data[p][2] = [hospNameEn |-> "A", hospNameCh |-> "Jia", topWait |-> "1 HR",
                         hospTimeEn |-> "01/01/2024 12:00PM"]

\* C13: when last is at or after the most recent checkpoint at or before
\* now, should_update(last) is false.
C13_NoSpuriousUpdate ==
    \A p \in Procs :
        (Evaluated(p) /\ AtOrBefore(LatestCheckpoint(su_now[p]), last_entry_time[p])) => ~due[p]

\* should_update was given exactly the latest checkpoint, some time after it
C13_Witness ==
    \E p \in Procs :
        /\ Evaluated(p)
        /\ last_entry_time[p] = LatestCheckpoint(su_now[p])
        /\ Before(last_entry_time[p], su_now[p])

\* ------------------------------------------------ overlapping invocations
\* Two scheduler triggers may overlap: each process runs main() as above,
\* their steps interleave; every operation succeeds and takes no time.
RaceProcs == {1, 2}
RaceIntervals == {0, 84 * MINUTE}
RacePayload == CHOOSE h \in Payloads : TRUE

InitRace ==
    /\ clock = StartClock
    /\ last_entry_time = [p \in RaceProcs |-> NoTime]
    /\ store = [d \in Days |-> NoFile]
    /\ readme = <<>>
    /\ runs = 0
    /\ prev = [ran |-> FALSE, now |-> NoTime, wrote |-> 0, failed |-> FALSE]
    /\ pc = [p \in RaceProcs |-> "idle"]
    /\ now = [p \in RaceProcs |-> NoTime]
    /\ daily = [p \in RaceProcs |-> <<>>]
    /\ su_now = [p \in RaceProcs |-> NoTime]
    /\ due = [p \in RaceProcs |-> FALSE]
    /\ check_times = [p \in RaceProcs |-> <<>>]
    /\ data = [p \in RaceProcs |-> NoData]
    /\ handling = [p \in RaceProcs |-> FALSE]
    /\ filename = [p \in RaceProcs |-> 0]
    /\ existing_data = [p \in RaceProcs |-> <<>>]
    /\ firstDl = [p \in RaceProcs |-> "none"]
    /\ failed = [p \in RaceProcs |-> FALSE]
    /\ wrote = [p \in RaceProcs |-> 0]
    /\ errors = [d \in Days |-> <<>>]
    /\ uploads = 0
    /\ response = [p \in RaceProcs |-> <<>>]
    /\ fetches = [p \in RaceProcs |-> 0]
    /\ wfailed = [p \in RaceProcs |-> FALSE]

NextRace ==
    \E p \in RaceProcs :
        \/ runs < RaceRuns /\ \E d \in RaceIntervals : Start(p, d)
        \/ Download(p, TRUE)
        \/ Gate(p, 0)
        \/ fetch_data(p, TRUE, RacePayload)
        \/ create_repo(p, TRUE)
        \/ load_existing(p, 0, TRUE)
        \/ upload_file(p, TRUE)
        \/ update_readme(p, 0, TRUE)

SpecRace == InitRace /\ [][NextRace]_vars

\* the Snapshots held by all partitions together
Stored == Len(store[0].data) + Len(store[1].data) + Len(store[2].data)

OwnSnapshot(p) == [timestamp |-> isoformat(now[p]), hospitals |-> data[p]]

\* C14: nothing excludes two invocations from each other: an upload replaces
\* the partition by what its invocation loaded plus its own Snapshot,
\* whatever the partition holds by then, so that (witness) a Snapshot that
\* was uploaded can be missing and two invocations that passed the gate on
\* the same last entry can both have their Snapshots stored.
C14_LastWriterWins ==
    [][\A p \in RaceProcs :
          (pc[p] = "upload" /\ pc'[p] = "readme") =>
              store'[filename[p]].data = Append(existing_data[p], OwnSnapshot(p))]_vars

\* more uploads succeeded than Snapshots are stored
LostUpdate == uploads > Stored

\* both processes passed the gate on the same last entry and both their
\* Snapshots are the last two of the partition
Duplicate ==
    \E p, q \in RaceProcs :
        /\ p # q /\ pc[p] = "done" /\ pc[q] = "done"
        /\ due[p] /\ due[q] /\ last_entry_time[p] = last_entry_time[q]
        /\ filename[p] = filename[q]
        /\ LET d == store[filename[p]].data
           IN  /\ Len(d) >= 3
               /\ d[Len(d) - 1] = OwnSnapshot(p)
               /\ d[Len(d)] = OwnSnapshot(q)
               /\ d[Len(d) - 2].timestamp = daily[p][Len(daily[p])].timestamp

C14_Witness == LostUpdate /\ Duplicate

\* C15: a cycle whose gate is closed (today's partition read, not empty,
\* should_update false) fetches nothing, uploads nothing, leaves the
\* partitions and the README as they were and returns normally.
GateClosed(p) ==
    /\ Returned(p) /\ firstDl[p] = "ok" /\ daily[p] # <<>>
    /\ Evaluated(p) /\ ~due[p]

C15_GateClosedNoOp ==
    /\ [](\A p \in Procs :
            GateClosed(p) =>
                /\ pc[p] = "done" /\ ~handling[p]
                /\ fetches[p] = 0 /\ wrote[p] = 0 /\ data[p] = NoData)
    /\ [][\A p \in Procs :
            (pc'[p] \in {"download", "gate"} \/ (pc[p] = "gate" /\ pc'[p] = "done")) =>
                (store' = store /\ readme' = readme)]_vars

C15_Witness ==
    \E p \in Procs :
        GateClosed(p) /\ store[Today(p)].data = daily[p] /\ readme # <<>> /\ clock > now[p].wall

\* ------------------------------------- a partition that exists and is empty
\* The remote store may hold a file {"data": []} for today (the program
\* never uploads one, the owner of the repository can): sequential runs
\* started with such a file for day 0, in which the first download, the
\* fetch and the upload may fail.
EmptyFile == [exists |-> TRUE, data |-> <<>>]

InitEmpty ==
    /\ clock = StartClock
    /\ last_entry_time = [p \in Procs |-> NoTime]
    /\ store = [d \in Days |-> IF d = 0 THEN EmptyFile ELSE NoFile]
    /\ readme = <<>>
    /\ runs = 0
    /\ prev = [ran |-> FALSE, now |-> NoTime, wrote |-> 0, failed |-> FALSE]
    /\ pc = [p \in Procs |-> "idle"]
    /\ now = [p \in Procs |-> NoTime]
    /\ daily = [p \in Procs |-> <<>>]
    /\ su_now = [p \in Procs |-> NoTime]
    /\ due = [p \in Procs |-> FALSE]
    /\ check_times = [p \in Procs |-> <<>>]
    /\ data = [p \in Procs |-> NoData]
    /\ handling = [p \in Procs |-> FALSE]
    /\ filename = [p \in Procs |-> 0]
    /\ existing_data = [p \in Procs |-> <<>>]
    /\ firstDl = [p \in Procs |-> "none"]
    /\ failed = [p \in Procs |-> FALSE]
    /\ wrote = [p \in Procs |-> 0]
    /\ errors = [d \in Days |-> <<>>]
    /\ uploads = 0
    /\ response = [p \in Procs |-> <<>>]
    /\ fetches = [p \in Procs |-> 0]
    /\ wfailed = [p \in Procs |-> FALSE]

NextEmpty ==
    \/ runs < EmptyRuns /\ \E d \in Intervals : Start(1, d)
    \/ \E ok \in BOOLEAN : Download(1, ok)
    \/ Gate(1, 0)
    \/ \E ok \in BOOLEAN, h \in Payloads : fetch_data(1, ok, h)
    \/ create_repo(1, TRUE)
    \/ \E d \in Delays : load_existing(1, d, TRUE)
    \/ \E ok \in BOOLEAN : upload_file(1, ok)
    \/ update_readme(1, 0, TRUE)

SpecEmpty == InitEmpty /\ [][NextEmpty]_vars

\* the case of C16: today's partition was read and holds no Snapshot, and
\* nothing failed
C16_Case(p) == Returned(p) /\ firstDl[p] = "ok" /\ daily[p] = <<>> /\ ~failed[p]

C17_AtMostOnce == \A p \in Procs : wrote[p] <= 1 /\ fetches[p] <= 1

\* C18: every Snapshot in the partition of day D is stamped with a time of
\* day D, and update_dataset writes the partition check_and_update read.
C18_PartitionOfItsDay ==
    /\ \A d \in Days : \A i \in 1 .. Len(store[d].data) : strftime_date(Timestamps(d)[i]) = d
    /\ \A p \in Procs : pc[p] \in {"upload", "readme"} => filename[p] = Today(p)

\* ------------------------------------------------- a slow partition download
\* The download in check_and_update has no timeout: should_update may read
\* the clock long after check_and_update did.  Every operation succeeds.
SlowDelays == {0, 25 * MINUTE}
SlowIntervals == {0, 59 * MINUTE, 84 * MINUTE}

NextSlow ==
    \/ runs < MaxRuns /\ \E d \in SlowIntervals : Start(1, d)
    \/ Download(1, TRUE)
    \/ \E d \in SlowDelays : Gate(1, d)
    \/ \E h \in Payloads : fetch_data(1, TRUE, h)
    \/ create_repo(1, TRUE)
    \/ load_existing(1, 0, TRUE)
    \/ upload_file(1, TRUE)
    \/ update_readme(1, 0, TRUE)

SpecSlow == Init /\ [][NextSlow]_vars

\* the gate of should_update as C19 describes it
C19_Gate(p) ==
    Evaluated(p) =>
        /\ SelectSeq(get_check_times(su_now[p]), LAMBDA c : AtOrBefore(c, su_now[p])) = <<>>
        /\ prev_check_time(su_now[p]) = PlusSeconds(su_now[p], -HOUR)
        /\ due[p] <=> Instant(last_entry_time[p]) < Instant(su_now[p]) - HOUR

\* p appended its Snapshot, approved by the gate, after an earlier one
GateApproved(p) ==
    /\ pc[p] \in {"readme", "done"} /\ due[p] /\ wrote[p] = 1
    /\ Len(existing_data[p]) >= 2
    /\ store[filename[p]].data = existing_data[p]

Earlier(p) == fromisoformat(existing_data[p][Len(existing_data[p]) - 1].timestamp)

Approved(p) == fromisoformat(existing_data[p][Len(existing_data[p])].timestamp)

====
